---- MODULE Spec2Model ----
(***************************************************************************)
(* Model of es_disk_planner: the capacity calculator plan_capacity         *)
(* (src/src/lib.rs), the report renderer (Display for Plan) and the        *)
(* command-line driver main (src/src/main.rs).                             *)
(*                                                                         *)
(* f64 values are modelled as records:                                     *)
(*   [k |-> "fin", n |-> num, d |-> den]  a finite value n/d, in lowest    *)
(*                                        terms, d > 0                     *)
(*   [k |-> "inf", n |-> 1 or -1, d |-> 0] +infinity / -infinity           *)
(*   [k |-> "nan", n |-> 0, d |-> 0]      NaN                              *)
(* The IEEE-754 rules for NaN and the infinities are modelled (operands    *)
(* that are NaN, inf - inf, 0 * inf, comparisons with NaN being false).    *)
(* Finite arithmetic is exact: the rounding of the 53-bit significand, the *)
(* overflow of finite operands and the sign of zero are not modelled.      *)
(***************************************************************************)
EXTENDS Integers, Sequences, FiniteSets, TLC

VARIABLES pc, args, result, calls, stdout, stderr, exit_status

vars == <<pc, args, result, calls, stdout, stderr, exit_status>>

(***************************************************************************)
(* Bounds of the input space.                                              *)
(***************************************************************************)
MaxNodes == 2

MaxPrimaries == 2

MaxReplicas == 1

(***************************************************************************)
(* f64                                                                     *)
(***************************************************************************)
NaN == [k |-> "nan", n |-> 0, d |-> 0]

PosInf == [k |-> "inf", n |-> 1, d |-> 0]

NegInf == [k |-> "inf", n |-> -1, d |-> 0]

Abs(x) == IF x < 0 THEN -x ELSE x

Sign(x) == IF x < 0 THEN -1 ELSE IF x = 0 THEN 0 ELSE 1

RECURSIVE GCD(_, _)
GCD(a, b) == IF b = 0 THEN a ELSE GCD(b, a % b)

\* the finite value n/d (d # 0), in lowest terms with a positive denominator
Fin(n, d) ==
    LET g == GCD(Abs(n), Abs(d))
    IN  [k |-> "fin", n |-> (Sign(d) * n) \div g, d |-> Abs(d) \div g]

Inf(s) == IF s < 0 THEN NegInf ELSE PosInf

IsNaN(a) == a.k = "nan"

IsInf(a) == a.k = "inf"

IsFinite(a) == a.k = "fin"

\* nodes as f64, primaries as f64, replicas as f64: exact for every u32
U32ToF64(u) == Fin(u, 1)

\* The operands of an operation are evaluated once, as values x and y.
Add(x, y) ==
    IF IsNaN(x) \/ IsNaN(y) THEN NaN
    ELSE IF IsInf(x) /\ IsInf(y) THEN (IF x.n = y.n THEN x ELSE NaN)
    ELSE IF IsInf(x) THEN x
    ELSE IF IsInf(y) THEN y
    ELSE Fin(x.n * y.d + y.n * x.d, x.d * y.d)

Mul(x, y) ==
    IF IsNaN(x) \/ IsNaN(y) THEN NaN
    ELSE IF IsInf(x) \/ IsInf(y)
         THEN (IF x.n = 0 \/ y.n = 0 THEN NaN ELSE Inf(Sign(x.n) * Sign(y.n)))
    ELSE Fin(x.n * y.n, x.d * y.d)

Div(x, y) ==
    IF IsNaN(x) \/ IsNaN(y) THEN NaN
    ELSE IF IsInf(x) /\ IsInf(y) THEN NaN
    ELSE IF IsInf(x) THEN Inf(x.n * (IF y.n < 0 THEN -1 ELSE 1))
    ELSE IF IsInf(y) THEN Fin(0, 1)
    ELSE IF y.n = 0 THEN (IF x.n = 0 THEN NaN ELSE Inf(x.n))
    ELSE Fin(x.n * y.d, x.d * y.n)

\* a + b
FAdd(a, b) == CHOOSE r \in {Add(x, y) : x \in {a}, y \in {b}} : TRUE

\* a * b
FMul(a, b) == CHOOSE r \in {Mul(x, y) : x \in {a}, y \in {b}} : TRUE

\* a / b
FDiv(a, b) == CHOOSE r \in {Div(x, y) : x \in {a}, y \in {b}} : TRUE

\* a < b on f64: false as soon as one operand is NaN
FLt(a, b) ==
    /\ ~IsNaN(a)
    /\ ~IsNaN(b)
    /\ IF IsInf(a) THEN a.n = -1 /\ b # a
       ELSE IF IsInf(b) THEN b.n = 1
       ELSE a.n * b.d < b.n * a.d

\* a == b on f64: NaN is equal to nothing, itself included
FEq(a, b) == ~IsNaN(a) /\ ~IsNaN(b) /\ a = b

FLe(a, b) == FLt(a, b) \/ FEq(a, b)

FGt(a, b) == FLt(b, a)

FGe(a, b) == FLe(b, a)

Zero == Fin(0, 1)

One == Fin(1, 1)

(***************************************************************************)
(* Option<f64> and Result<Plan, String>                                    *)
(***************************************************************************)
None == [some |-> FALSE, v |-> Zero]

Some(x) == [some |-> TRUE, v |-> x]

unwrap_or(o, dflt) == IF o.some THEN o.v ELSE dflt

Ok(p) == [ok |-> TRUE, plan |-> p, err |-> ""]

Err(e) == [ok |-> FALSE, plan |-> <<>>, err |-> e]

(***************************************************************************)
(* planner::plan_capacity                                                  *)
(***************************************************************************)
NoError == ""

ErrNodes == "nodes must be > 0"

ErrUtilization == "target_utilization must be in (0, 1]"

ErrFraction == "overhead_merge/headroom must be >= 0"

\* the message of the check before, copied
ErrShardSizeCopied == "overhead_merge/headroom must be >= 0"

ErrShardSize == "shard_size_gb must be > 0"

\* the check of shard_size_gb moved before the check of the fractions
ValidateShardFirst(nodes, shard_size_gb, overhead_merge, headroom, target_utilization) ==
    IF nodes = 0 THEN ErrNodes
    ELSE IF FLe(target_utilization, Zero) \/ FGt(target_utilization, One)
         THEN ErrUtilization
    ELSE IF FLe(shard_size_gb, Zero) THEN ErrShardSize
    ELSE IF FLt(overhead_merge, Zero) \/ FLt(headroom, Zero)
         THEN ErrFraction
    ELSE NoError

\* the four early returns, in the order of the code; NoError when none is taken
Validate(nodes, shard_size_gb, overhead_merge, headroom, target_utilization) ==
    IF nodes = 0 THEN ErrNodes
    ELSE IF FLe(target_utilization, Zero) \/ FGt(target_utilization, One)
         THEN ErrUtilization
    ELSE IF FLt(overhead_merge, Zero) \/ FLt(headroom, Zero)
         THEN ErrFraction
    ELSE IF FLe(shard_size_gb, Zero) THEN ErrShardSize
    ELSE NoError

\* unwrap_or_default() in the place of unwrap_or(shard_size_gb)
BufOrDefault(buffer_per_node_gb, shard_size_gb) ==
    unwrap_or(buffer_per_node_gb, Zero)

\* let buf = buffer_per_node_gb.unwrap_or(shard_size_gb)
Buf(buffer_per_node_gb, shard_size_gb) ==
    unwrap_or(buffer_per_node_gb, shard_size_gb)

\* primaries_f left out of the product
BaseWithoutPrimaries(primaries_f, shard_size_gb, replicas_f) ==
    FMul(shard_size_gb, FAdd(One, replicas_f))

\* let base = primaries_f * shard_size_gb * (1.0 + replicas_f)
Base(primaries_f, shard_size_gb, replicas_f) ==
    FMul(FMul(primaries_f, shard_size_gb), FAdd(One, replicas_f))

\* let with_merge = base * (1.0 + overhead_merge)
WithMerge(base, overhead_merge) == FMul(base, FAdd(One, overhead_merge))

\* 1.0 - headroom in the place of 1.0 + headroom
WithHeadroomTakenOff(with_merge, headroom) ==
    FMul(with_merge, FAdd(One, FMul(Fin(-1, 1), headroom)))

\* let with_headroom = with_merge * (1.0 + headroom)
WithHeadroom(with_merge, headroom) == FMul(with_merge, FAdd(One, headroom))

\* let buffer_total = buf * nodes_f
BufferTotal(buf, nodes_f) == FMul(buf, nodes_f)

\* let total_cluster = with_headroom + buffer_total
TotalCluster(with_headroom, buffer_total) == FAdd(with_headroom, buffer_total)

\* let per_node = total_cluster / nodes_f
PerNode(total_cluster, nodes_f) == FDiv(total_cluster, nodes_f)

\* let disk_per_node = per_node / target_utilization
DiskPerNode(per_node, target_utilization) == FDiv(per_node, target_utilization)

plan_capacity(nodes, primaries, replicas, shard_size_gb, overhead_merge, headroom, buffer_per_node_gb, target_utilization) ==
    LET e == Validate(nodes, shard_size_gb, overhead_merge, headroom,
                      target_utilization)
    IN  IF e # NoError THEN Err(e)
        ELSE
        LET nodes_f       == U32ToF64(nodes)
            primaries_f   == U32ToF64(primaries)
            replicas_f    == U32ToF64(replicas)
            buf           == Buf(buffer_per_node_gb, shard_size_gb)
            base          == Base(primaries_f, shard_size_gb, replicas_f)
            with_merge    == WithMerge(base, overhead_merge)
            with_headroom == WithHeadroom(with_merge, headroom)
            buffer_total  == BufferTotal(buf, nodes_f)
            total_cluster == TotalCluster(with_headroom, buffer_total)
            per_node      == PerNode(total_cluster, nodes_f)
            disk_per_node == DiskPerNode(per_node, target_utilization)
        IN  Ok([base               |-> base,
                with_merge         |-> with_merge,
                with_headroom      |-> with_headroom,
                buffer_total       |-> buffer_total,
                total_cluster      |-> total_cluster,
                per_node           |-> per_node,
                disk_per_node      |-> disk_per_node,
                target_utilization |-> target_utilization,
                nodes              |-> nodes,
                primaries          |-> primaries,
                replicas           |-> replicas,
                shard_size_gb      |-> shard_size_gb,
                overhead_merge     |-> overhead_merge,
                headroom           |-> headroom,
                buffer_per_node_gb |-> buffer_per_node_gb])

(***************************************************************************)
(* Display for Plan                                                        *)
(***************************************************************************)
\* n/d (d > 0) rounded to the nearest integer, ties to the even one
RoundHalfEven(n, d) ==
    LET q == n \div d
        r == n % d
    IN  IF 2 * r < d THEN q
        ELSE IF 2 * r > d THEN q + 1
        ELSE IF q % 2 = 0 THEN q ELSE q + 1

RECURSIVE Pow10(_)
Pow10(p) == IF p = 0 THEN 1 ELSE 10 * Pow10(p - 1)

\* format!("{:.prec}", x): the decimal with prec fractional digits, kept as
\* the integer x * 10^prec rounded; "NaN", "inf" and "-inf" for the others
Fixed(x, prec) ==
    IF IsFinite(x)
    THEN [k |-> "fin", scaled |-> RoundHalfEven(x.n * Pow10(prec), x.d),
          prec |-> prec]
    ELSE [k |-> x.k, scaled |-> x.n, prec |-> prec]

fmt_gb(x) == <<Fixed(x, 1), " GB">>

fmt_tb(x) == <<Fixed(FDiv(x, Fin(1000, 1)), 2), " TB">>

\* {:.0}% of a fraction: self.overhead_merge * 100.0 and the like
Percent(x) == <<Fixed(FMul(x, Fin(100, 1)), 0), "%">>

\* the buffer printed without the fallback to shard_size_gb
RelocationBufferShownOrZero(self) == unwrap_or(self.buffer_per_node_gb, Zero)

\* the value of the line "Relocation buffer per node"
RelocationBufferShown(self) ==
    unwrap_or(self.buffer_per_node_gb, self.shard_size_gb)

\* the lines written by fmt, one tuple a line, <<>> for an empty line
fmt(self) ==
    << <<"=== Elasticsearch Disk Capacity Planner ===">>,
       <<"Nodes: ", self.nodes>>,
       <<"Primary shards: ", self.primaries>>,
       <<"Replicas per shard: ", self.replicas>>,
       <<"Shard size: ", fmt_gb(self.shard_size_gb),
         " | Overhead merge: ", Percent(self.overhead_merge),
         " | Headroom: ", Percent(self.headroom)>>,
       <<"Relocation buffer per node: ", fmt_gb(RelocationBufferShown(self))>>,
       <<"Target disk utilization: ", Percent(self.target_utilization)>>,
       <<>>,
       <<"Base (primaries+replicas): ", fmt_gb(self.base), fmt_tb(self.base)>>,
       <<"+ Merge overhead:         ", fmt_gb(self.with_merge),
         fmt_tb(self.with_merge)>>,
       <<"+ Headroom:               ", fmt_gb(self.with_headroom),
         fmt_tb(self.with_headroom)>>,
       <<"+ Total buffer:           ", fmt_gb(self.buffer_total),
         fmt_tb(self.buffer_total)>>,
       <<"= Cluster total:          ", fmt_gb(self.total_cluster),
         fmt_tb(self.total_cluster)>>,
       <<>>,
       <<"Per node (recommended):   ", fmt_gb(self.per_node),
         fmt_tb(self.per_node)>>,
       <<"Disk per node (<~", Percent(self.target_utilization), "): ",
         fmt_gb(self.disk_per_node), fmt_tb(self.disk_per_node)>> >>

(***************************************************************************)
(* The arguments of a run: what Args::parse can return.  The f64           *)
(* arguments include the values "NaN" and "inf", which f64's FromStr       *)
(* accepts.                                                                *)
(***************************************************************************)
ShardSizes == {NaN, Fin(-1, 1), Zero, Fin(1, 2), Fin(2, 1), PosInf}

Fractions == {NaN, Fin(-1, 2), Zero, Fin(1, 2), PosInf}

Utilizations == {NaN, Zero, Fin(1, 2), One, Fin(3, 2)}

Buffers == {None} \cup {Some(x) : x \in {NaN, Fin(-3, 1), Zero, Fin(2, 1), NegInf}}

\* tests::example_numbers_match, also the defaults of Args
ScenarioA ==
    [nodes |-> 5, primaries |-> 10, replicas |-> 1,
     shard_size_gb |-> Fin(50, 1), overhead_merge |-> Fin(20, 100),
     headroom |-> Fin(30, 100), buffer_per_node_gb |-> None,
     target_utilization |-> Fin(75, 100)]

\* tests::custom_buffer
ScenarioB ==
    [nodes |-> 3, primaries |-> 6, replicas |-> 1,
     shard_size_gb |-> Fin(40, 1), overhead_merge |-> Fin(1, 10),
     headroom |-> Fin(2, 10), buffer_per_node_gb |-> Some(Fin(80, 1)),
     target_utilization |-> Fin(8, 10)]

Args ==
    [nodes : 0..MaxNodes, primaries : 0..MaxPrimaries, replicas : 0..MaxReplicas,
     shard_size_gb : ShardSizes, overhead_merge : Fractions,
     headroom : Fractions, buffer_per_node_gb : Buffers,
     target_utilization : Utilizations]
    \cup {ScenarioA, ScenarioB}

(***************************************************************************)
(* main                                                                    *)
(***************************************************************************)
\* plan_capacity applied to the parsed arguments, as main calls it
Compute(a) ==
    plan_capacity(a.nodes, a.primaries, a.replicas, a.shard_size_gb,
                  a.overhead_merge, a.headroom, a.buffer_per_node_gb,
                  a.target_utilization)

NotCalled == [ok |-> FALSE, plan |-> <<>>, err |-> "not called"]

\* the process has started, the command line is not parsed yet: args holds
\* the defaults until Parse sets it, and exit_status is -1 while running
Init ==
    /\ pc = "start"
    /\ args = ScenarioA
    /\ result = NotCalled
    /\ calls = 0
    /\ stdout = <<>>
    /\ stderr = <<>>
    /\ exit_status = -1

\* let a = Args::parse();
Parse(space) ==
    /\ pc = "start"
    /\ args' \in space
    /\ pc' = "parsed"
    /\ UNCHANGED <<result, calls, stdout, stderr, exit_status>>

\* match plan_capacity(a.nodes, ...)
CallPlanCapacity ==
    /\ pc = "parsed"
    /\ result' = Compute(args)
    /\ calls' = calls + 1
    /\ pc' = "matched"
    /\ UNCHANGED <<args, stdout, stderr, exit_status>>

\* Ok(plan) => println!("{}", plan), and main returns
PrintPlan ==
    /\ pc = "matched"
    /\ result.ok
    /\ stdout' = stdout \o fmt(result.plan) \o << <<>> >>
    /\ exit_status' = 0
    /\ pc' = "done"
    /\ UNCHANGED <<args, result, calls, stderr>>

\* the error arm with std::process::exit(1)
PrintErrorAndExitOne ==
    /\ pc = "matched"
    /\ ~result.ok
    /\ stderr' = Append(stderr, <<"Error: ", result.err>>)
    /\ exit_status' = 1
    /\ pc' = "done"
    /\ UNCHANGED <<args, result, calls, stdout>>

\* Err(e) => { eprintln!("Error: {}", e); std::process::exit(2); }
PrintErrorAndExit ==
    /\ pc = "matched"
    /\ ~result.ok
    /\ stderr' = Append(stderr, <<"Error: ", result.err>>)
    /\ exit_status' = 2
    /\ pc' = "done"
    /\ UNCHANGED <<args, result, calls, stdout>>

Next == Parse(Args) \/ CallPlanCapacity \/ PrintPlan \/ PrintErrorAndExit

Spec == Init /\ [][Next]_vars

\* The runs of main over the arguments that differ in what decides the
\* outcome: the arguments validation reads, and the buffer.
MainArgs == {a \in Args : a.primaries = a.nodes /\ a.replicas = 0}

MainNext == Parse(MainArgs) \/ CallPlanCapacity \/ PrintPlan \/ PrintErrorAndExit

\* main is sequential code: a statement that can run does run
FairSpec == Init /\ [][MainNext]_vars /\ WF_vars(MainNext)

(***************************************************************************)
(* Properties                                                              *)
(***************************************************************************)
Returned == pc \in {"matched", "done"}

plan == result.plan

\* the buffer as the specification resolves it
SpecBuffer(a) ==
    IF a.buffer_per_node_gb.some THEN a.buffer_per_node_gb.v ELSE a.shard_size_gb

\* |x - y| < eps on finite values
Near(x, y, eps) ==
    /\ IsFinite(x)
    /\ FLt(FAdd(x, FMul(Fin(-1, 1), y)), eps)
    /\ FLt(FAdd(y, FMul(Fin(-1, 1), x)), eps)

\* C1: every plan returned satisfies the derivation chain: base = primaries *
\* shard_size_gb * (1 + replicas), with_merge = base * (1 + overhead_merge),
\* with_headroom = with_merge * (1 + headroom), buffer_total = buffer * nodes,
\* total_cluster = with_headroom + buffer_total, per_node = total_cluster /
\* nodes and disk_per_node * target_utilization = per_node; the example of
\* the tests gives 1000, 1200, 1560, 250, 1810, 362 and about 482.667.
\* Equality is equality of values (a NaN equals a NaN), so that a violation
\* is one under every reading of "=".
DerivationChain ==
    (Returned /\ result.ok) =>
        /\ plan.base = FMul(FMul(U32ToF64(args.primaries), args.shard_size_gb),
                            FAdd(One, U32ToF64(args.replicas)))
        /\ plan.with_merge = FMul(plan.base, FAdd(One, args.overhead_merge))
        /\ plan.with_headroom = FMul(plan.with_merge, FAdd(One, args.headroom))
        /\ plan.buffer_total = FMul(SpecBuffer(args), U32ToF64(args.nodes))
        /\ plan.total_cluster = FAdd(plan.with_headroom, plan.buffer_total)
        /\ plan.per_node = FDiv(plan.total_cluster, U32ToF64(args.nodes))
        /\ FMul(plan.disk_per_node, args.target_utilization) = plan.per_node
        /\ args = ScenarioA =>
              /\ plan.base = Fin(1000, 1)
              /\ plan.with_merge = Fin(1200, 1)
              /\ plan.with_headroom = Fin(1560, 1)
              /\ plan.buffer_total = Fin(250, 1)
              /\ plan.total_cluster = Fin(1810, 1)
              /\ plan.per_node = Fin(362, 1)
              /\ Near(plan.disk_per_node, Fin(482667, 1000), Fin(1, 1000))

\* the condition of validity as the specification states it
ValidInput(a) ==
    /\ a.nodes > 0
    /\ FLt(Zero, a.target_utilization)
    /\ FLe(a.target_utilization, One)
    /\ FGe(a.overhead_merge, Zero)
    /\ FGe(a.headroom, Zero)
    /\ FGt(a.shard_size_gb, Zero)

\* C2: plan_capacity returns a plan if and only if nodes > 0 and
\* 0 < target_utilization <= 1 and overhead_merge >= 0 and headroom >= 0 and
\* shard_size_gb > 0; otherwise it returns an error and no plan.
PlanIffValid ==
    Returned =>
        /\ result.ok <=> ValidInput(args)
        /\ ~result.ok => (result.plan = <<>> /\ result.err # NoError)

\* the four rules of validation, as the specification numbers them
Rule1(a) == a.nodes = 0

Rule2(a) == FLe(a.target_utilization, Zero) \/ FGt(a.target_utilization, One)

Rule3(a) == FLt(a.overhead_merge, Zero) \/ FLt(a.headroom, Zero)

Rule4(a) == FLe(a.shard_size_gb, Zero)

RulesViolated(a) ==
    {i \in 1..4 : \/ i = 1 /\ Rule1(a)
                  \/ i = 2 /\ Rule2(a)
                  \/ i = 3 /\ Rule3(a)
                  \/ i = 4 /\ Rule4(a)}

Lowest(S) == CHOOSE i \in S : \A j \in S : i <= j

\* the error of each rule
RuleError == <<ErrNodes, ErrUtilization, ErrFraction, ErrShardSize>>

\* C3: validation short-circuits in the order nodes, target_utilization,
\* overhead_merge/headroom, shard_size_gb: the error returned is the one of
\* the lowest-numbered violated rule, and the four errors are distinct.
FirstViolatedRuleReported ==
    /\ \A i, j \in 1..4 : i # j => RuleError[i] # RuleError[j]
    /\ Returned =>
          /\ RulesViolated(args) # {} =>
                /\ ~result.ok
                /\ result.err = RuleError[Lowest(RulesViolated(args))]
          /\ RulesViolated(args) = {} => result.ok

\* an input that violates several rules has been answered
SeveralRulesViolated ==
    /\ pc = "done"
    /\ Cardinality(RulesViolated(args)) >= 2
    /\ Lowest(RulesViolated(args)) = 3
    /\ ~result.ok

\* C4, as stated: the error carries "nodes must be greater than zero",
\* "target_utilization must be in the interval (0, 1]", "overhead_merge and
\* headroom must be non-negative" or "shard_size_gb must be greater than
\* zero", for the first rule that is violated.
MessagesAsSpecified ==
    (Returned /\ ~result.ok) =>
        /\ Rule1(args) => result.err = "nodes must be greater than zero"
        /\ (~Rule1(args) /\ Rule2(args)) =>
              result.err = "target_utilization must be in the interval (0, 1]"
        /\ (~Rule1(args) /\ ~Rule2(args) /\ Rule3(args)) =>
              result.err = "overhead_merge and headroom must be non-negative"
        /\ (~Rule1(args) /\ ~Rule2(args) /\ ~Rule3(args) /\ Rule4(args)) =>
              result.err = "shard_size_gb must be greater than zero"

\* C4, amended: the messages are "nodes must be > 0",
\* "target_utilization must be in (0, 1]", "overhead_merge/headroom must be
\* >= 0" and "shard_size_gb must be > 0", each for the first rule violated,
\* and an error carries no other message.
MessagesOfTheCode ==
    (Returned /\ ~result.ok) =>
        /\ Rule1(args) => result.err = "nodes must be > 0"
        /\ (~Rule1(args) /\ Rule2(args)) =>
              result.err = "target_utilization must be in (0, 1]"
        /\ (~Rule1(args) /\ ~Rule2(args) /\ Rule3(args)) =>
              result.err = "overhead_merge/headroom must be >= 0"
        /\ (~Rule1(args) /\ ~Rule2(args) /\ ~Rule3(args) /\ Rule4(args)) =>
              result.err = "shard_size_gb must be > 0"
        /\ result.err \in {"nodes must be > 0",
                           "target_utilization must be in (0, 1]",
                           "overhead_merge/headroom must be >= 0",
                           "shard_size_gb must be > 0"}

\* a non-positive shard size alone has been rejected
ShardSizeRejected ==
    /\ pc = "done"
    /\ RulesViolated(args) = {4}
    /\ stderr = << <<"Error: ", "shard_size_gb must be > 0">> >>

\* the same call with buffer_per_node_gb = Some(shard_size_gb)
WithExplicitBuffer(a) ==
    Compute([a EXCEPT !.buffer_per_node_gb = Some(a.shard_size_gb)])

\* C5, as stated: with buffer_per_node_gb omitted the plan is identical in
\* every field to the plan of the call with buffer_per_node_gb = shard_size_gb.
OmittedBufferSamePlan ==
    (Returned /\ result.ok /\ ~args.buffer_per_node_gb.some) =>
        /\ WithExplicitBuffer(args).ok
        /\ WithExplicitBuffer(args).plan = plan

\* C5, amended: the two plans are identical in every field but
\* buffer_per_node_gb, which echoes the argument: None in the one,
\* Some(shard_size_gb) in the other.
OmittedBufferSamePlanButEcho ==
    (Returned /\ result.ok /\ ~args.buffer_per_node_gb.some) =>
        /\ WithExplicitBuffer(args).ok
        /\ \A f \in DOMAIN plan \ {"buffer_per_node_gb"} :
              WithExplicitBuffer(args).plan[f] = plan[f]
        /\ DOMAIN WithExplicitBuffer(args).plan = DOMAIN plan
        /\ plan.buffer_per_node_gb = None
        /\ WithExplicitBuffer(args).plan.buffer_per_node_gb
              = Some(args.shard_size_gb)

\* a plan has been computed with the buffer omitted, and it has a buffer
OmittedBufferPlanned ==
    /\ pc = "done"
    /\ result.ok
    /\ ~args.buffer_per_node_gb.some
    /\ FGt(plan.buffer_total, Zero)
    /\ FGt(plan.base, Zero)

\* the inputs that differ from a in one of primaries, replicas,
\* shard_size_gb, overhead_merge and headroom, which is larger
Raised(a) ==
    {[a EXCEPT !.primaries = x] : x \in {y \in 0..MaxPrimaries : y > a.primaries}}
    \cup {[a EXCEPT !.replicas = x] : x \in {y \in 0..MaxReplicas : y > a.replicas}}
    \cup {[a EXCEPT !.shard_size_gb = x] :
             x \in {y \in ShardSizes : FGt(y, a.shard_size_gb)}}
    \cup {[a EXCEPT !.overhead_merge = x] :
             x \in {y \in Fractions : FGt(y, a.overhead_merge)}}
    \cup {[a EXCEPT !.headroom = x] :
             x \in {y \in Fractions : FGt(y, a.headroom)}}

\* C6: for two valid inputs that differ only in that one of primaries,
\* replicas, shard_size_gb, overhead_merge or headroom is larger in the
\* second, the total_cluster of the second plan is not smaller than that of
\* the first.
TotalClusterMonotone ==
    (Returned /\ result.ok) =>
        \A b \in Raised(args) :
            Compute(b).ok => ~FLt(Compute(b).plan.total_cluster, plan.total_cluster)

\* a plan whose total_cluster grows when an argument is raised
TotalClusterRaised ==
    /\ pc = "done"
    /\ result.ok
    /\ IsFinite(plan.total_cluster)
    /\ \E b \in Raised(args) :
          /\ Compute(b).ok
          /\ IsFinite(Compute(b).plan.total_cluster)
          /\ FLt(plan.total_cluster, Compute(b).plan.total_cluster)

FiniteFigures(a) ==
    /\ IsFinite(a.shard_size_gb)
    /\ IsFinite(a.overhead_merge)
    /\ IsFinite(a.headroom)

\* C7, as stated: primaries = 0 and replicas = 0 are accepted by validation,
\* and a plan with primaries = 0 has base, with_merge, with_headroom,
\* total_cluster, per_node and disk_per_node all zero.
ZeroPrimariesZeroPlan ==
    Returned =>
        /\ result.ok = Compute([args EXCEPT !.primaries = 0, !.replicas = 0]).ok
        /\ (result.ok /\ args.primaries = 0 /\ FiniteFigures(args)) =>
              /\ plan.base = Zero
              /\ plan.with_merge = Zero
              /\ plan.with_headroom = Zero
              /\ plan.total_cluster = Zero
              /\ plan.per_node = Zero
              /\ plan.disk_per_node = Zero

\* C7, amended: primaries = 0 and replicas = 0 are accepted by validation;
\* with primaries = 0 and finite shard_size_gb, overhead_merge and headroom,
\* base, with_merge and with_headroom are zero, and total_cluster is the
\* buffer: total_cluster = buffer_total = buffer * nodes.
ZeroPrimariesBufferOnly ==
    Returned =>
        /\ result.ok = Compute([args EXCEPT !.primaries = 0, !.replicas = 0]).ok
        /\ (result.ok /\ args.primaries = 0 /\ FiniteFigures(args)) =>
              /\ plan.base = Zero
              /\ plan.with_merge = Zero
              /\ plan.with_headroom = Zero
              /\ plan.total_cluster = plan.buffer_total
              /\ plan.buffer_total = FMul(SpecBuffer(args), U32ToF64(args.nodes))

\* a plan for no primary shard, whose total is not zero
ZeroPrimariesPlanned ==
    /\ pc = "done"
    /\ result.ok
    /\ args.primaries = 0
    /\ args.replicas = 0
    /\ FiniteFigures(args)
    /\ FGt(plan.total_cluster, Zero)

\* the outcome of a run that has ended
RunOutcome ==
    pc = "done" =>
        /\ calls = 1
        /\ result = Compute(args)
        /\ \/ /\ ~result.ok
              /\ stderr = << <<"Error: ", result.err>> >>
              /\ stdout = <<>>
              /\ exit_status = 2
           \/ /\ result.ok
              /\ stdout = fmt(plan) \o << <<>> >>
              /\ stderr = <<>>
              /\ exit_status = 0

\* C8: the process calls plan_capacity exactly once; on an error it writes
\* the message to the error stream, nothing to the output stream, and ends
\* with status 2; on a plan it writes the report to the output stream and
\* ends with status 0; every run ends in one of the two.
RunProtocol ==
    /\ [](calls <= 1 /\ (pc # "done" => stdout = <<>> /\ stderr = <<>>))
    /\ []RunOutcome
    /\ <>(pc = "done")

\* a run that has ended on an error
RunFailed ==
    /\ pc = "done"
    /\ ~result.ok
    /\ exit_status = 2
    /\ Len(stderr) = 1

\* C9, as stated: the resolved buffer is a field of the plan: the plan's
\* buffer_per_node_gb is the value the calculation used, and the renderer
\* has no fallback to take.
PlanCarriesResolvedBuffer ==
    (Returned /\ result.ok) =>
        /\ plan.buffer_per_node_gb.some
        /\ plan.buffer_per_node_gb.v = SpecBuffer(args)

\* C9, amended: the plan carries the buffer_per_node_gb argument as given,
\* None included; the renderer takes the fallback again, from the plan's
\* shard_size_gb, and the value it prints is the one the calculation used.
RendererResolvesBufferAgain ==
    (Returned /\ result.ok) =>
        /\ plan.buffer_per_node_gb = args.buffer_per_node_gb
        /\ RelocationBufferShown(plan) = SpecBuffer(args)
        /\ plan.buffer_total = FMul(RelocationBufferShown(plan), U32ToF64(plan.nodes))
        /\ pc = "done" =>
              stdout[6] = <<"Relocation buffer per node: ", fmt_gb(SpecBuffer(args))>>

\* a report printed from a plan without buffer_per_node_gb
FallbackPrinted ==
    /\ pc = "done"
    /\ result.ok
    /\ ~plan.buffer_per_node_gb.some
    /\ stdout[6] = <<"Relocation buffer per node: ", fmt_gb(plan.shard_size_gb)>>

\* a <= b, read as "a is not greater than b", which holds of a NaN
NotGreater(a, b) == ~FGt(a, b)

\* C10: every plan returned has 0 <= base <= with_merge <= with_headroom <=
\* total_cluster, buffer_total >= 0 and 0 <= per_node <= disk_per_node,
\* whatever buffer_per_node_gb is supplied.  The comparisons are read as
\* "not greater", so that a violation is one under every reading.
FiguresOrdered ==
    (Returned /\ result.ok) =>
        /\ NotGreater(Zero, plan.base)
        /\ NotGreater(plan.base, plan.with_merge)
        /\ NotGreater(plan.with_merge, plan.with_headroom)
        /\ NotGreater(plan.with_headroom, plan.total_cluster)
        /\ NotGreater(Zero, plan.buffer_total)
        /\ NotGreater(Zero, plan.per_node)
        /\ NotGreater(plan.per_node, plan.disk_per_node)

====
